---------------------------- MODULE Spec2Model ----------------------------
(***************************************************************************)
(* FastStorage replay examples (python/): three reader loops over the same *)
(* native record stream.                                                   *)
(*   cs : bench_faststorage_cs.py    run_benchmark  (DepthBook, TradeLog)  *)
(*   rs : bench_faststorage_rust.py  benchmark      (raw-offset reads)     *)
(*   pm : process_messages_cs.py     process_messages                      *)
(* The three loops are run side by side on one stream of records, so that  *)
(* a statement about "every variant" is a statement about one state.       *)
(***************************************************************************)
EXTENDS Integers, Sequences, FiniteSets, TLC

(***************************************************************************)
(* Arbitrary-size naturals as sequences of 12-bit limbs, least significant *)
(* limb first, without high zero limbs (zero is << >>).  The wire fields   *)
(* are 64-bit and a Python float carries a 53-bit significand: neither     *)
(* fits the checker's 32-bit integers, so the arithmetic of the scaling is *)
(* done on limbs.                                                          *)
(***************************************************************************)
LimbBits == 3 * 4
Base == 2 ^ LimbBits

RECURSIVE NatToLimbs(_)
NatToLimbs(n) == IF n = 0 THEN << >> ELSE <<n % Base>> \o NatToLimbs(n \div Base)

RECURSIVE LimbsToNat(_)
LimbsToNat(a) == IF a = << >> THEN 0 ELSE a[1] + Base * LimbsToNat(Tail(a))

RECURSIVE Norm(_)
Norm(a) == IF a = << >> THEN << >>
           ELSE IF a[Len(a)] = 0 THEN Norm(SubSeq(a, 1, Len(a) - 1)) ELSE a

RECURSIVE AddC(_, _, _)
AddC(a, b, c) ==
    IF a = << >> /\ b = << >>
    THEN IF c = 0 THEN << >> ELSE <<c>>
    ELSE LET x == IF a = << >> THEN 0 ELSE a[1]
             y == IF b = << >> THEN 0 ELSE b[1]
             s == x + y + c
         IN  <<s % Base>> \o AddC(IF a = << >> THEN << >> ELSE Tail(a),
                                  IF b = << >> THEN << >> ELSE Tail(b),
                                  s \div Base)

Add(a, b) == AddC(a, b, 0)

\* a * k + c for a limb k
RECURSIVE MulSmallC(_, _, _)
MulSmallC(a, k, c) ==
    IF a = << >> THEN NatToLimbs(c)
    ELSE LET p == a[1] * k + c
         IN  <<p % Base>> \o MulSmallC(Tail(a), k, p \div Base)

RECURSIVE Mul(_, _)
Mul(a, b) ==
    IF a = << >> \/ b = << >> THEN << >>
    ELSE LET r == Mul(Tail(a), b)
         IN  Norm(Add(MulSmallC(b, a[1], 0), IF r = << >> THEN << >> ELSE <<0>> \o r))

\* -1, 0, 1 as a < b, a = b, a > b
RECURSIVE CmpAt(_, _, _)
CmpAt(a, b, i) ==
    IF i = 0 THEN 0
    ELSE IF a[i] < b[i] THEN -1
    ELSE IF a[i] > b[i] THEN 1
    ELSE CmpAt(a, b, i - 1)

Cmp(a, b) == IF Len(a) < Len(b) THEN -1
             ELSE IF Len(a) > Len(b) THEN 1
             ELSE CmpAt(a, b, Len(a))

RECURSIVE IntBitLen(_)
IntBitLen(n) == IF n = 0 THEN 0 ELSE 1 + IntBitLen(n \div 2)

BitLen(a) == IF a = << >> THEN 0
             ELSE LimbBits * (Len(a) - 1) + IntBitLen(a[Len(a)])

\* bit i of a, bit 1 the lowest
Bit(a, i) ==
    LET j == (i - 1) \div LimbBits + 1
        r == (i - 1) % LimbBits
    IN  IF j > Len(a) THEN 0 ELSE (a[j] \div 2 ^ r) % 2

\* floor(a / 2^d)
Shr(a, d) ==
    LET w == d \div LimbBits
        r == d % LimbBits
        n == Len(a) - w
    IN  IF n <= 0 THEN << >>
        ELSE Norm([i \in 1..n |->
                     (a[i + w] \div 2 ^ r)
                     + (IF i + w + 1 <= Len(a)
                        THEN (a[i + w + 1] % 2 ^ r) * 2 ^ (LimbBits - r)
                        ELSE 0)])

\* a * 2^d
Shl(a, d) ==
    LET w == d \div LimbBits
        r == d % LimbBits
        n == Len(a) + w + 1
    IN  IF a = << >> THEN << >>
        ELSE Norm([i \in 1..n |->
                     LET j == i - w
                     IN  (IF j >= 1 /\ j <= Len(a)
                          THEN (a[j] * 2 ^ r) % Base ELSE 0)
                         + (IF j >= 2 /\ j - 1 <= Len(a)
                            THEN (a[j - 1] * 2 ^ r) \div Base ELSE 0)])

\* the number of low zero bits of a nonzero a
RECURSIVE IntTrailingZeros(_)
IntTrailingZeros(n) == IF n % 2 = 1 THEN 0 ELSE 1 + IntTrailingZeros(n \div 2)

RECURSIVE TrailingZeros(_)
TrailingZeros(a) == IF a[1] = 0 THEN LimbBits + TrailingZeros(Tail(a))
                    ELSE IntTrailingZeros(a[1])

\* floor(n / d) and n mod d for a divisor d below 2^19, by short division
\* from the high limb down (the running remainder times Base stays in range)
RECURSIVE DivFrom(_, _, _)
DivFrom(n, d, i) ==
    IF i > Len(n) THEN [q |-> << >>, r |-> 0]
    ELSE LET h   == DivFrom(n, d, i + 1)
             cur == h.r * Base + n[i]
         IN  [q |-> <<cur \div d>> \o h.q, r |-> cur % d]

DivSmall(n, d) == LET h == DivFrom(n, d, 1) IN [q |-> Norm(h.q), r |-> h.r]

(***************************************************************************)
(* A 64-bit wire integer is its sign and its magnitude.  I64(s, u, f) is   *)
(* the integer s * (u * 10^8 + f): u whole units and f hundred-millionths  *)
(* at the wire's fixed-point scale.                                        *)
(***************************************************************************)
I64(s, u, f) ==
    LET mag == Add(Mul(NatToLimbs(u), NatToLimbs(100000000)), NatToLimbs(f))
    IN  [sgn |-> IF mag = << >> THEN 0 ELSE s, mag |-> mag]

IsPositive(x) == x.sgn > 0

(***************************************************************************)
(* A Python float (IEEE-754 binary64) is sgn * m * 2^e with m odd (or the  *)
(* zero float): one value, one representation.  The magnitudes met here    *)
(* lie between 10^-8 and 2^63, far from overflow and from subnormals, so   *)
(* the exponent is not bounded.                                            *)
(***************************************************************************)
MantBits == 53

FZero == [sgn |-> 0, m |-> << >>, e |-> 0]

Canon(s, m, e) ==
    IF m = << >> THEN FZero
    ELSE LET tz == TrailingZeros(m)
         IN  [sgn |-> s, m |-> Shr(m, tz), e |-> e + tz]

\* q * 2^e (plus a nonzero fraction of 2^e when sticky) rounded to MantBits
\* significant bits, to nearest, ties to even
Round(s, q, sticky, e) ==
    IF BitLen(q) <= MantBits THEN Canon(s, q, e)
    ELSE LET d     == BitLen(q) - MantBits
             guard == Bit(q, d)
             rest  == sticky \/ Shl(Shr(q, d - 1), d - 1) # q
             m0    == Shr(q, d)
             up    == guard = 1 /\ (rest \/ Bit(m0, 1) = 1)
             m1    == IF up THEN Add(m0, <<1>>) ELSE m0
         IN  Canon(s, m1, e + d)

\* float(x) of an int
IntToFloat(x) == Round(x.sgn, x.mag, FALSE, 0)

\* a * b of two floats
FMul(a, b) == Round(a.sgn * b.sgn, Mul(a.m, b.m), FALSE, a.e + b.e)

\* the correctly rounded quotient of n * 2^en by d * 2^ed, d below 2^19
RoundedQuotient(s, n, en, d, ed) ==
    IF n = << >> THEN FZero
    ELSE LET t  == IF MantBits + 2 + IntBitLen(d) > BitLen(n)
                   THEN MantBits + 2 + IntBitLen(d) - BitLen(n) ELSE 0
             qr == DivSmall(Shl(n, t), d)
         IN  Round(s, qr.q, qr.r # 0, en - ed - t)

\* a / b of two floats; the one divisor of the program is 1e8 = 390625 * 2^8
FDiv(a, b) == RoundedQuotient(a.sgn * b.sgn, a.m, a.e, LimbsToNat(b.m), b.e)

\* x / y of two ints (Python's true division rounds the exact quotient once);
\* the one divisor of the program is 10 ** 8
IntTrueDiv(x, y) ==
    LET fy == Canon(y.sgn, y.mag, 0)
    IN  RoundedQuotient(x.sgn * y.sgn, x.mag, 0, LimbsToNat(fy.m), fy.e)

MagLess(a, b) ==
    LET e0 == IF a.e < b.e THEN a.e ELSE b.e
    IN  Cmp(Shl(a.m, a.e - e0), Shl(b.m, b.e - e0)) < 0

\* a < b
FLess(a, b) ==
    IF a.sgn # b.sgn THEN a.sgn < b.sgn
    ELSE IF a.sgn = 0 THEN FALSE
    ELSE IF a.sgn > 0 THEN MagLess(a, b) ELSE MagLess(b, a)

(***************************************************************************)
(* Optional values (None) and dicts.  A dict is a function from its keys;  *)
(* Python compares float keys by value, as the canonical floats are here.  *)
(***************************************************************************)
None == << >>
Some(v) == <<v>>

EmptyDict == [k \in {} |-> FZero]
DictSet(d, k, v) == (k :> v) @@ d
DictPop(d, k) == [j \in DOMAIN d \ {k} |-> d[j]]
Truthy(d) == DOMAIN d # {}

\* Python's max(d) and min(d) over the keys of a non-empty dict: one pass
\* keeping the larger (smaller) key
RECURSIVE MaxKey(_)
MaxKey(S) ==
    LET x == CHOOSE k \in S : TRUE
    IN  IF S = {x} THEN x
        ELSE LET m == MaxKey(S \ {x}) IN IF FLess(m, x) THEN x ELSE m

RECURSIVE MinKey(_)
MinKey(S) ==
    LET x == CHOOSE k \in S : TRUE
    IN  IF S = {x} THEN x
        ELSE LET m == MinKey(S \ {x}) IN IF FLess(x, m) THEN x ELSE m

(***************************************************************************)
(* Wire format.  A record on the wire is the map from byte offset to the   *)
(* field that starts there (the 2-byte size at offset 2 is read by none of *)
(* the scripts).  The packed structs give the offsets: the header is       *)
(* 2 + 2 + 8 bytes, then come the 8-byte fields in declaration order.      *)
(***************************************************************************)
KindDepth == 0
KindTick == 1

FlagBuy == 1
FlagSell == 2
FlagClear == 4

I64Size == 8
KindOffset == 0
TimeOffset == 2 + 2
HeaderSize == 2 + 2 + I64Size

DepthItem_Price == HeaderSize
DepthItem_Volume == HeaderSize + I64Size
DepthItem_Flags == HeaderSize + 2 * I64Size

TickItem_Id == HeaderSize
TickItem_Price == HeaderSize + I64Size
TickItem_Volume == HeaderSize + 2 * I64Size
TickItem_Type == HeaderSize + 3 * I64Size

DepthItem(time, price, volume, flags) ==
    (KindOffset :> KindDepth) @@ (TimeOffset :> time)
    @@ (DepthItem_Price :> price) @@ (DepthItem_Volume :> volume)
    @@ (DepthItem_Flags :> flags)

TickItem(time, id, price, volume, type) ==
    (KindOffset :> KindTick) @@ (TimeOffset :> time)
    @@ (TickItem_Id :> id) @@ (TickItem_Price :> price)
    @@ (TickItem_Volume :> volume) @@ (TickItem_Type :> type)

\* a record of a kind the scripts do not decode (Symbol, Candle, CandleEnd):
\* its header and the first two 8-byte words of its payload
OtherItem(kind, time, w1, w2) ==
    (KindOffset :> kind) @@ (TimeOffset :> time)
    @@ (HeaderSize :> w1) @@ (HeaderSize + I64Size :> w2)

\* flags & bit, for one bit
HasFlag(flags, bit) == (flags \div bit) % 2 = 1

\* the fixed-point scale 10^8 as an int
E8 == I64(1, 1, 0)

(***************************************************************************)
(* The stream: the records native read_message hands to the three loops.   *)
(***************************************************************************)
PxA == I64(1, 100, 50000000)
PxB == I64(1, 100, 60000000)
\* two neighbouring prices above 2^26 units, where floats lie 2^-26 apart
PxHi1 == I64(1, 67108864, 1)
PxHi2 == I64(1, 67108864, 2)

VolZero == I64(0, 0, 0)
VolNeg == I64(-1, 1, 0)
VolA == I64(1, 1, 50000000)
VolB == I64(1, 2, 0)

Id7 == I64(1, 0, 7)
Id8 == I64(1, 0, 8)
Px55 == I64(1, 100, 55000000)
Vol05 == I64(1, 0, 50000000)

\* every 64-bit value a record of the stream carries
RawInts == {PxA, PxB, PxHi1, PxHi2, VolZero, VolNeg, VolA, VolB, Id7, Id8,
            Px55, Vol05}

\* the session stream: a bid level, an ask level, their deletes and clears,
\* trades, and records of other kinds
DepthRecs ==
    {DepthItem(1, PxA, v, f) : v \in {VolB, VolZero},
                               f \in {FlagBuy, FlagClear + FlagBuy}}
    \cup {DepthItem(1, PxB, v, f) : v \in {VolA, VolZero},
                                    f \in {FlagSell, FlagClear + FlagSell}}
TickRecs == {TickItem(t, i, Px55, Vol05, 0) : t \in {1, 2}, i \in {Id7, Id8}}
OtherRecs == {OtherItem(k, 1, Id7, Px55) : k \in {2, 4}}
ErrorCodes == {-2, -3, -1, -7}

\* the book stream: Depth records only, two levels a side with overwrite and
\* delete, every Buy/Sell/Clear combination, and the neighbouring large prices
BookRecs ==
    {DepthItem(1, p, v, f) : p \in {PxA, PxB}, v \in {VolA, VolB, VolZero},
                             f \in {FlagBuy, FlagSell}}
    \cup {DepthItem(1, PxA, v, f) :
            v \in {VolA, VolNeg},
            f \in {0, FlagBuy + FlagSell, FlagClear + FlagBuy, FlagClear + FlagSell}}
    \cup {DepthItem(1, p, v, FlagBuy) : p \in {PxHi1, PxHi2}, v \in {VolA, VolZero}}

\* the long stream: one bid, one ask, a clearing bid, one trade, one other
DeepRecs ==
    {DepthItem(1, PxA, VolB, FlagBuy), DepthItem(1, PxB, VolA, FlagSell),
     DepthItem(1, PxA, VolB, FlagClear + FlagBuy),
     TickItem(1, Id7, Px55, Vol05, 0), OtherItem(2, 1, Id7, Px55)}

\* the reader stream: one record of each kind
ReaderRecs ==
    {DepthItem(1, PxA, VolB, FlagBuy), TickItem(1, Id7, Px55, Vol05, 0),
     OtherItem(2, 1, Id7, Px55)}

MaxMsgs == 3
MaxBook == 3
MaxDeep == 6
\* the frame stream: two bid prices and an ask price with their deletes, the
\* neighbouring large prices, and a trade
FrameRecs ==
    {DepthItem(1, p, v, FlagBuy) : p \in {PxA, PxB}, v \in {VolA, VolZero}}
    \cup {DepthItem(1, PxA, v, FlagSell) : v \in {VolA, VolZero}}
    \cup {DepthItem(1, p, v, FlagBuy) : p \in {PxHi1, PxHi2}, v \in {VolA, VolZero}}
    \cup {TickItem(1, Id7, Px55, Vol05, 0)}

MaxReads == 3
MaxFrame == 4
MaxCloses == 3
MaxLate == 2

(***************************************************************************)
(* bench_faststorage_cs.py                                                 *)
(***************************************************************************)
\* x / 1e8
\* (tabulated over the 64-bit values of the stream)
CsScaleTable == [x \in RawInts |-> FDiv(IntToFloat(x), IntToFloat(E8))]
CsScale(x) == CsScaleTable[x]

\* FastReader.__next__ after a successful read: the struct view by Kind
CsNext(rec) ==
    IF rec[KindOffset] = KindDepth THEN [cls |-> "DepthItem", msg |-> rec]
    ELSE IF rec[KindOffset] = KindTick THEN [cls |-> "TickItem", msg |-> rec]
    ELSE [cls |-> "None", msg |-> rec]

DepthBook_init == [bids |-> EmptyDict, asks |-> EmptyDict]

\* faulty variant: Clear empties only the side the record selects
DepthBook_apply_ClearsOneSide(self, msg) ==
    LET side    == IF HasFlag(msg[DepthItem_Flags], FlagBuy)
                   THEN "bids" ELSE "asks"
        cleared == IF HasFlag(msg[DepthItem_Flags], FlagClear)
                   THEN [self EXCEPT ![side] = EmptyDict] ELSE self
    IN  [cleared EXCEPT ![side] =
            IF IsPositive(msg[DepthItem_Volume])
            THEN DictSet(@, CsScale(msg[DepthItem_Price]),
                         CsScale(msg[DepthItem_Volume]))
            ELSE DictPop(@, CsScale(msg[DepthItem_Price]))]

\* faulty variant: a set Sell bit sends the record to asks whatever the Buy bit
DepthBook_apply_SellWins(self, msg) ==
    LET cleared == IF HasFlag(msg[DepthItem_Flags], FlagClear)
                   THEN DepthBook_init ELSE self
        side    == IF HasFlag(msg[DepthItem_Flags], FlagBuy)
                      /\ ~HasFlag(msg[DepthItem_Flags], FlagSell)
                   THEN "bids" ELSE "asks"
    IN  [cleared EXCEPT ![side] =
            IF IsPositive(msg[DepthItem_Volume])
            THEN DictSet(@, CsScale(msg[DepthItem_Price]),
                         CsScale(msg[DepthItem_Volume]))
            ELSE DictPop(@, CsScale(msg[DepthItem_Price]))]

DepthBook_apply(self, msg) ==
    LET cleared == IF HasFlag(msg[DepthItem_Flags], FlagClear)
                   THEN DepthBook_init ELSE self
        side    == IF HasFlag(msg[DepthItem_Flags], FlagBuy)
                   THEN "bids" ELSE "asks"
    IN  [cleared EXCEPT ![side] =
            IF IsPositive(msg[DepthItem_Volume])
            THEN DictSet(@, CsScale(msg[DepthItem_Price]),
                         CsScale(msg[DepthItem_Volume]))
            ELSE DictPop(@, CsScale(msg[DepthItem_Price]))]

\* faulty variant: min for max
DepthBook_best_bid_Min(self) ==
    IF Truthy(self.bids) THEN Some(MinKey(DOMAIN self.bids)) ELSE None

DepthBook_best_bid(self) ==
    IF Truthy(self.bids) THEN Some(MaxKey(DOMAIN self.bids)) ELSE None

DepthBook_best_ask(self) ==
    IF Truthy(self.asks) THEN Some(MinKey(DOMAIN self.asks)) ELSE None

\* faulty variant: the entry goes to the front of the log
TradeLog_push_Front(self, msg) ==
    <<<<msg[TimeOffset], CsScale(msg[TickItem_Price]),
        CsScale(msg[TickItem_Volume])>>>> \o self

TradeLog_push(self, msg) ==
    Append(self, <<msg[TimeOffset], CsScale(msg[TickItem_Price]),
                   CsScale(msg[TickItem_Volume])>>)

\* "... if bb else N/A": None and 0.0 are both falsy
CsShown(b) == SelectSeq(b, LAMBDA f : f.sgn # 0)

CsInit ==
    [depth |-> DepthBook_init, trades |-> << >>, msgs |-> 0,
     building_snapshot |-> TRUE, first_snapshot_reported |-> FALSE,
     out |-> << >>, report |-> None, error |-> None]

\* the "First complete book" lines printed at the first Tick
CsFirstBook(depth) ==
    [bid |-> CsShown(DepthBook_best_bid(depth)),
     ask |-> CsShown(DepthBook_best_ask(depth))]

\* the TickItem branch of the loop of run_benchmark
CsTick(st, msg) ==
    [st EXCEPT
        !.trades = TradeLog_push(@, msg),
        !.building_snapshot = FALSE,
        !.out = IF st.building_snapshot THEN Append(@, CsFirstBook(st.depth)) ELSE @,
        !.first_snapshot_reported = st.building_snapshot \/ @]

\* one iteration of the for loop of run_benchmark
CsBody(st, rec) ==
    IF CsNext(rec).cls = "None" THEN st
    ELSE IF CsNext(rec).cls = "DepthItem"
    THEN [st EXCEPT !.depth = DepthBook_apply(@, CsNext(rec).msg), !.msgs = @ + 1]
    ELSE [CsTick(st, CsNext(rec).msg) EXCEPT !.msgs = @ + 1]

\* after the loop: the summary
CsSummary(st) ==
    [st EXCEPT !.report = Some(
        [msgs |-> st.msgs,
         incomplete |-> st.building_snapshot,
         bids |-> IF st.building_snapshot THEN None
                  ELSE Some(Cardinality(DOMAIN st.depth.bids)),
         asks |-> IF st.building_snapshot THEN None
                  ELSE Some(Cardinality(DOMAIN st.depth.asks)),
         best_bid |-> IF st.building_snapshot THEN None
                      ELSE CsShown(DepthBook_best_bid(st.depth)),
         best_ask |-> IF st.building_snapshot THEN None
                      ELSE CsShown(DepthBook_best_ask(st.depth)),
         trades |-> Len(st.trades),
         last |-> IF st.trades # << >> THEN Some(st.trades[Len(st.trades)])
                  ELSE None])]

\* faulty variant: -3 is reported as a corrupted block
CsError_Merged(code) ==
    IF code = -2 \/ code = -3
    THEN [exc |-> "IOError", what |-> "Corrupted data block", code |-> None]
    ELSE [exc |-> "IOError", what |-> "unknown error", code |-> Some(code)]

\* FastReader.__next__ on a negative read: the IOError that leaves run_benchmark
CsError(code) ==
    IF code = -2 THEN [exc |-> "IOError", what |-> "Corrupted data block", code |-> None]
    ELSE IF code = -3 THEN [exc |-> "IOError", what |-> "Unexpected end of file", code |-> None]
    ELSE [exc |-> "IOError", what |-> "unknown error", code |-> Some(code)]

CsRaise(st, code) == [st EXCEPT !.error = Some(CsError(code))]

(***************************************************************************)
(* bench_faststorage_rust.py                                               *)
(***************************************************************************)
_PX == 12
_VOL == 20
_FLG == 28
_TS == 4

\* _SCALE = 1.0e-8: the float nearest to 10^-8
_SCALE == FDiv(IntToFloat(I64(1, 0, 1)), IntToFloat(E8))

\* x * _SCALE
RsScaleTable == [x \in RawInts |-> FMul(IntToFloat(x), _SCALE)]
RsScale(x) == RsScaleTable[x]

\* "bb or 'N/A'": None and 0.0 are both falsy
RsShown(b) == SelectSeq(b, LAMBDA f : f.sgn # 0)

RsInit ==
    [bids |-> EmptyDict, asks |-> EmptyDict, trades |-> << >>, cnt |-> 0,
     building_snapshot |-> TRUE, first_snapshot_printed |-> FALSE,
     out |-> << >>, report |-> None, error |-> None]

\* faulty variant: Clear leaves building_snapshot alone
RsDepth_KeepsLive(st, addr) ==
    LET c    == IF HasFlag(addr[_FLG], FlagClear)
                THEN [st EXCEPT !.bids = EmptyDict, !.asks = EmptyDict]
                ELSE st
        book == IF HasFlag(addr[_FLG], FlagBuy) THEN "bids" ELSE "asks"
    IN  [c EXCEPT ![book] =
            IF RsScale(addr[_VOL]).sgn > 0
            THEN DictSet(@, RsScale(addr[_PX]), RsScale(addr[_VOL]))
            ELSE DictPop(@, RsScale(addr[_PX]))]

\* faulty variant: "vol >= 0" for "vol > 0"
RsDepth_StoresZero(st, addr) ==
    LET c    == IF HasFlag(addr[_FLG], FlagClear)
                THEN [st EXCEPT !.bids = EmptyDict, !.asks = EmptyDict,
                                !.building_snapshot = TRUE]
                ELSE st
        book == IF HasFlag(addr[_FLG], FlagBuy) THEN "bids" ELSE "asks"
    IN  [c EXCEPT ![book] =
            IF RsScale(addr[_VOL]).sgn >= 0
            THEN DictSet(@, RsScale(addr[_PX]), RsScale(addr[_VOL]))
            ELSE DictPop(@, RsScale(addr[_PX]))]

\* the Depth branch of the loop of benchmark
RsDepth(st, addr) ==
    LET c    == IF HasFlag(addr[_FLG], FlagClear)
                THEN [st EXCEPT !.bids = EmptyDict, !.asks = EmptyDict,
                                !.building_snapshot = TRUE]
                ELSE st
        book == IF HasFlag(addr[_FLG], FlagBuy) THEN "bids" ELSE "asks"
    IN  [c EXCEPT ![book] =
            IF RsScale(addr[_VOL]).sgn > 0
            THEN DictSet(@, RsScale(addr[_PX]), RsScale(addr[_VOL]))
            ELSE DictPop(@, RsScale(addr[_PX]))]

\* faulty variant: no first_snapshot_printed guard
RsFirstBook_Unguarded(st) ==
    IF Truthy(st.bids) /\ Truthy(st.asks)
    THEN <<[bid |-> Some(MaxKey(DOMAIN st.bids)),
            ask |-> Some(MinKey(DOMAIN st.asks))]>>
    ELSE << >>

\* the "First complete book" line, printed once, with both sides non-empty
RsFirstBook(st) ==
    IF Truthy(st.bids) /\ Truthy(st.asks) /\ ~st.first_snapshot_printed
    THEN <<[bid |-> Some(MaxKey(DOMAIN st.bids)),
            ask |-> Some(MinKey(DOMAIN st.asks))]>>
    ELSE << >>

\* the Tick branch of the loop of benchmark
RsTick(st, addr) ==
    [st EXCEPT
        !.trades = Append(@, <<addr[_TS], RsScale(addr[_PX]), RsScale(addr[_VOL])>>),
        !.building_snapshot = FALSE,
        !.out = IF st.building_snapshot THEN @ \o RsFirstBook(st) ELSE @,
        !.first_snapshot_printed =
            @ \/ (st.building_snapshot /\ Truthy(st.bids) /\ Truthy(st.asks))]

\* faulty variant: "else" for "elif k == Kind.Tick"
RsBody_ElseIsTick(st, addr) ==
    IF addr[KindOffset] = KindDepth
    THEN [RsDepth(st, addr) EXCEPT !.cnt = @ + 1]
    ELSE [RsTick(st, addr) EXCEPT !.cnt = @ + 1]

\* one iteration of the for loop of benchmark
RsBody(st, addr) ==
    IF addr[KindOffset] = KindDepth
    THEN [RsDepth(st, addr) EXCEPT !.cnt = @ + 1]
    ELSE IF addr[KindOffset] = KindTick
    THEN [RsTick(st, addr) EXCEPT !.cnt = @ + 1]
    ELSE [st EXCEPT !.cnt = @ + 1]

\* after the loop: the final summary
RsSummary(st) ==
    [st EXCEPT !.report = Some(
        [cnt |-> st.cnt,
         bids |-> Cardinality(DOMAIN st.bids),
         asks |-> Cardinality(DOMAIN st.asks),
         bb |-> IF Truthy(st.bids) THEN Some(MaxKey(DOMAIN st.bids)) ELSE None,
         ba |-> IF Truthy(st.asks) THEN Some(MinKey(DOMAIN st.asks)) ELSE None,
         best_bid |-> RsShown(IF Truthy(st.bids) THEN Some(MaxKey(DOMAIN st.bids))
                              ELSE None),
         best_ask |-> RsShown(IF Truthy(st.asks) THEN Some(MinKey(DOMAIN st.asks))
                              ELSE None),
         trades |-> Len(st.trades),
         last |-> IF st.trades # << >> THEN Some(st.trades[Len(st.trades)])
                  ELSE None])]

\* FastReader.__next__ on a negative read: the OSError that leaves benchmark
RsRaise(st, sz) ==
    [st EXCEPT !.error =
        Some([exc |-> "OSError", what |-> "native reader error", code |-> Some(sz)])]

(***************************************************************************)
(* process_messages_cs.py                                                  *)
(***************************************************************************)
\* x / 10 ** 8
PmScaleTable == [x \in RawInts |-> IntTrueDiv(x, E8)]
PmScale(x) == PmScaleTable[x]

\* FastReader.__next__ after a successful read: the struct view by Kind
PmNext(rec) ==
    IF rec[KindOffset] = KindDepth THEN [cls |-> "DepthItem", msg |-> rec]
    ELSE IF rec[KindOffset] = KindTick THEN [cls |-> "TickItem", msg |-> rec]
    ELSE [cls |-> "None", msg |-> rec]

DepthSnapshot_init == [bids |-> EmptyDict, asks |-> EmptyDict]

DepthSnapshot_update(self, msg) ==
    LET cleared == IF HasFlag(msg[DepthItem_Flags], FlagClear)
                   THEN DepthSnapshot_init ELSE self
        items   == IF HasFlag(msg[DepthItem_Flags], FlagBuy)
                   THEN "bids" ELSE "asks"
    IN  [cleared EXCEPT ![items] =
            IF IsPositive(msg[DepthItem_Volume])
            THEN DictSet(@, PmScale(msg[DepthItem_Price]),
                         PmScale(msg[DepthItem_Volume]))
            ELSE DictPop(@, PmScale(msg[DepthItem_Price]))]

TradeProcessor_update(self, msg) ==
    Append(self, <<msg[TimeOffset], PmScale(msg[TickItem_Price]),
                   PmScale(msg[TickItem_Volume])>>)

PmInit ==
    [depth |-> DepthSnapshot_init, trades |-> << >>, count |-> 0,
     report |-> None, error |-> None]

\* one iteration of the for loop of process_messages
PmBody(st, rec) ==
    IF PmNext(rec).cls = "None" THEN st
    ELSE IF PmNext(rec).cls = "DepthItem"
    THEN [st EXCEPT !.depth = DepthSnapshot_update(@, PmNext(rec).msg),
                    !.count = @ + 1]
    ELSE [st EXCEPT !.trades = TradeProcessor_update(@, PmNext(rec).msg),
                    !.count = @ + 1]

\* after the loop: BENCHMARK COMPLETE and the two printstate calls
PmSummary(st) ==
    [st EXCEPT !.report = Some(
        [count |-> st.count,
         bids |-> Cardinality(DOMAIN st.depth.bids),
         asks |-> Cardinality(DOMAIN st.depth.asks),
         best_bid |-> IF Truthy(st.depth.bids)
                      THEN Some(MaxKey(DOMAIN st.depth.bids)) ELSE None,
         best_ask |-> IF Truthy(st.depth.asks)
                      THEN Some(MinKey(DOMAIN st.depth.asks)) ELSE None,
         trades |-> Len(st.trades),
         last |-> IF st.trades # << >> THEN Some(st.trades[Len(st.trades)])
                  ELSE None])]

\* the IOError of FastReader.__next__, caught by process_messages and printed
PmError(code) ==
    IF code = -2 THEN [exc |-> "IOError", what |-> "Corrupted data block", code |-> None]
    ELSE IF code = -3 THEN [exc |-> "IOError", what |-> "Unexpected end of file", code |-> None]
    ELSE [exc |-> "IOError", what |-> "unknown error", code |-> Some(code)]

PmCatch(st, code) == [st EXCEPT !.error = Some(PmError(code))]

(***************************************************************************)
(* The three loops side by side on one stream.  yielded is the history of  *)
(* the records __next__ has returned.                                      *)
(***************************************************************************)
(***************************************************************************)
(* The FastReader objects and the native library behind them.  Each reader  *)
(* is its handle (and, in the rust script, its _closed flag) together with  *)
(* the number of read_message and close_reader calls it has made, the      *)
(* handle its last read_message call passed (passed) and the handles it has *)
(* passed to close_reader (released).                                       *)
(***************************************************************************)
\* a reader after a successful __init__
CsReader_init ==
    [reader_handle |-> Some(1), read_message |-> 0, close_reader |-> 0,
     passed |-> None, released |-> {}]

\* the read_message call of FastReader.__next__
CsReader_read(self) ==
    [self EXCEPT !.read_message = @ + 1, !.passed = Some(self.reader_handle)]

\* FastReader.close of bench_faststorage_cs.py
CsReader_close(self) ==
    IF self.reader_handle # None
    THEN [self EXCEPT !.close_reader = @ + 1, !.reader_handle = None,
                      !.released = @ \cup {self.reader_handle}]
    ELSE self

RsReader_init ==
    [_h |-> Some(1), _closed |-> FALSE, read_message |-> 0, close_reader |-> 0,
     passed |-> None, released |-> {}]

RsReader_read(self) ==
    [self EXCEPT !.read_message = @ + 1, !.passed = Some(self._h)]

\* faulty variant: close() does not look at _closed
RsReader_close_Unguarded(self) ==
    IF self._h # None
    THEN [self EXCEPT !.close_reader = @ + 1, !._closed = TRUE,
                      !.released = @ \cup {self._h}]
    ELSE self

\* FastReader.close of bench_faststorage_rust.py
RsReader_close(self) ==
    IF ~self._closed /\ self._h # None
    THEN [self EXCEPT !.close_reader = @ + 1, !._closed = TRUE,
                      !.released = @ \cup {self._h}]
    ELSE self

PmReader_init ==
    [reader_handle |-> Some(1), read_message |-> 0, close_reader |-> 0,
     passed |-> None, released |-> {}]

PmReader_read(self) ==
    [self EXCEPT !.read_message = @ + 1, !.passed = Some(self.reader_handle)]

\* FastReader.close of process_messages_cs.py
PmReader_close(self) ==
    IF self.reader_handle # None
    THEN [self EXCEPT !.close_reader = @ + 1, !.reader_handle = None,
                      !.released = @ \cup {self.reader_handle}]
    ELSE self

\* the size read_message returns for a record: that of its packed struct
MessageSize(rec) ==
    IF rec[KindOffset] = KindDepth THEN HeaderSize + 2 * I64Size + 1
    ELSE IF rec[KindOffset] = KindTick THEN HeaderSize + 3 * I64Size + 1
    ELSE HeaderSize + 2 * I64Size

\* the three readers, what read_message returned last, how often close()
\* has been entered, and how often __next__ has been called after close()
IoInit ==
    [cs |-> CsReader_init, rs |-> RsReader_init, pm |-> PmReader_init,
     message_size |-> None, close_calls |-> 0, late_calls |-> 0]

\* one __next__ in each program, read_message returning sz
IoRead(r, sz) ==
    [r EXCEPT !.cs = CsReader_read(@), !.rs = RsReader_read(@),
              !.pm = PmReader_read(@), !.message_size = Some(sz)]

\* __exit__, __del__ or close(): close() in each program
IoClose(r) ==
    [r EXCEPT !.cs = CsReader_close(@), !.rs = RsReader_close(@),
              !.pm = PmReader_close(@), !.close_calls = @ + 1]

\* an exception that is no IOError, raised inside the with block
Interrupted == Some([exc |-> "KeyboardInterrupt", what |-> "", code |-> None])

VARIABLES cs, rs, pm, pc, yielded, io

vars == <<cs, rs, pm, pc, yielded, io>>

Init ==
    /\ cs = CsInit
    /\ rs = RsInit
    /\ pm = PmInit
    /\ pc = "loop"
    /\ yielded = << >>
    /\ io = IoInit

\* faulty variant: each loop runs its body twice on the record
Iterate_Twice(rec) ==
    /\ pc = "loop"
    /\ cs' = CsBody(CsBody(cs, rec), rec)
    /\ rs' = RsBody(RsBody(rs, rec), rec)
    /\ pm' = PmBody(PmBody(pm, rec), rec)
    /\ yielded' = Append(yielded, rec)
    /\ io' = IoRead(io, MessageSize(rec))
    /\ pc' = pc

\* read_message returns a size above 0: each loop runs its body on the record
Iterate(rec) ==
    /\ pc = "loop"
    /\ cs' = CsBody(cs, rec)
    /\ rs' = RsBody(rs, rec)
    /\ pm' = PmBody(pm, rec)
    /\ yielded' = Append(yielded, rec)
    /\ io' = IoRead(io, MessageSize(rec))
    /\ pc' = pc

\* read_message returns 0: StopIteration ends each loop, the with block closes
\* the reader, the summaries follow
EndOfStream ==
    /\ pc = "loop"
    /\ cs' = CsSummary(cs)
    /\ rs' = RsSummary(rs)
    /\ pm' = PmSummary(pm)
    /\ pc' = "done"
    /\ io' = IoClose(IoRead(io, 0))
    /\ UNCHANGED yielded

\* faulty variant: the failure is swallowed and the loop reads on
ReadError_Retry(code) ==
    /\ pc = "loop"
    /\ cs' = CsRaise(cs, code)
    /\ rs' = RsRaise(rs, code)
    /\ pm' = PmCatch(pm, code)
    /\ pc' = "loop"
    /\ io' = IoRead(io, code)
    /\ UNCHANGED yielded

\* read_message returns a negative code: __next__ raises, the with block
\* closes the reader
ReadError(code) ==
    /\ pc = "loop"
    /\ cs' = CsRaise(cs, code)
    /\ rs' = RsRaise(rs, code)
    /\ pm' = PmCatch(pm, code)
    /\ pc' = "failed"
    /\ io' = IoClose(IoRead(io, code))
    /\ UNCHANGED yielded

\* an exception raised in the loop body leaves the with block: __exit__ closes
\* the reader and the exception goes on to the caller (no program catches it)
Interrupt ==
    /\ pc = "loop"
    /\ cs' = [cs EXCEPT !.error = Interrupted]
    /\ rs' = [rs EXCEPT !.error = Interrupted]
    /\ pm' = [pm EXCEPT !.error = Interrupted]
    /\ pc' = "interrupted"
    /\ io' = IoClose(io)
    /\ UNCHANGED yielded

\* after the session: one more close(), as __del__ makes it
Release ==
    /\ pc # "loop"
    /\ io.close_calls < MaxCloses
    /\ io' = IoClose(io)
    /\ UNCHANGED <<cs, rs, pm, pc, yielded>>

\* what read_message may return for a handle that is null or released: the
\* library reads memory it no longer owns, so end of stream, an error code or
\* the size of a record
LateSizes == {0, -1, HeaderSize + 2 * I64Size}

\* after the session: __next__ on the closed reader, read_message returning sz
NextAfterClose(sz) ==
    /\ pc # "loop"
    /\ io.late_calls < MaxLate
    /\ io' = [IoRead(io, sz) EXCEPT !.late_calls = @ + 1]
    /\ UNCHANGED <<cs, rs, pm, pc, yielded>>

ReadDepth == Len(yielded) < MaxMsgs /\ \E rec \in DepthRecs : Iterate(rec)
ReadTick == Len(yielded) < MaxMsgs /\ \E rec \in TickRecs : Iterate(rec)
ReadOther == Len(yielded) < MaxMsgs /\ \E rec \in OtherRecs : Iterate(rec)
ReadFailure == \E code \in ErrorCodes : ReadError(code)

Next == ReadDepth \/ ReadTick \/ ReadOther \/ EndOfStream \/ ReadFailure

Spec == Init /\ [][Next]_vars

\* Depth records only
ReadBook == Len(yielded) < MaxBook /\ \E rec \in BookRecs : Iterate(rec)

NextBook == ReadBook \/ EndOfStream

SpecBook == Init /\ [][NextBook]_vars

\* a long stream of few records
ReadDeep == Len(yielded) < MaxDeep /\ \E rec \in DeepRecs : Iterate(rec)

NextDeep == ReadDeep \/ EndOfStream

SpecDeep == Init /\ [][NextDeep]_vars

\* Depth records without Clear, and a trade
ReadFrame == Len(yielded) < MaxFrame /\ \E rec \in FrameRecs : Iterate(rec)

NextFrame == ReadFrame \/ EndOfStream

SpecFrame == Init /\ [][NextFrame]_vars

\* the life of the reader: a short stream, every way out of the with block,
\* and the close() calls that follow
ReadSome == Len(yielded) < MaxReads /\ \E rec \in ReaderRecs : Iterate(rec)

NextReader == ReadSome \/ EndOfStream \/ ReadFailure \/ Interrupt \/ Release

SpecReader == Init /\ [][NextReader]_vars

\* the for loop makes its next read, and the native read returns
FairReader == SpecReader /\ WF_vars(ReadSome \/ EndOfStream \/ ReadFailure)

\* the reader as an object: the session, then close() and __next__ in any
\* order
ReadLate == \E sz \in LateSizes : NextAfterClose(sz)

NextApi == NextReader \/ ReadLate

SpecApi == Init /\ [][NextApi]_vars

(***************************************************************************)
(* Vocabulary of the properties.                                           *)
(***************************************************************************)
IsDepth(rec) == rec[KindOffset] = KindDepth
IsTick(rec) == rec[KindOffset] = KindTick
IsOther(rec) == ~IsDepth(rec) /\ ~IsTick(rec)

HasClear(rec) == HasFlag(rec[DepthItem_Flags], FlagClear)
HasBuy(rec) == HasFlag(rec[DepthItem_Flags], FlagBuy)
HasSell(rec) == HasFlag(rec[DepthItem_Flags], FlagSell)

\* the side a Depth record selects: bids when its Buy bit is set
SideOf(rec) == IF HasBuy(rec) THEN "bids" ELSE "asks"

Sides == {"bids", "asks"}
StreamPrices == {PxA, PxB, PxHi1, PxHi2}

RsBook == [bids |-> rs.bids, asks |-> rs.asks]

\* this step is a loop iteration, on record TheRec
Stepped == yielded' # yielded
TheRec == yielded'[Len(yielded')]

LastRec == yielded[Len(yielded)]
Ticks == SelectSeq(yielded, IsTick)

\* the last record of the history for a side and a raw price, if any
LastFor(side, p) ==
    LET idx == {i \in 1..Len(yielded) :
                  /\ IsDepth(yielded[i])
                  /\ SideOf(yielded[i]) = side
                  /\ yielded[i][DepthItem_Price] = p}
    IN  IF idx = {} THEN None
        ELSE Some(yielded[CHOOSE i \in idx : \A j \in idx : j <= i])

\* the level of raw price p on a side is as the last record for it says
LevelAsLast(book, scale(_), side, p) ==
    IF LastFor(side, p) # None
       /\ IsPositive(LastFor(side, p)[1][DepthItem_Volume])
    THEN /\ scale(p) \in DOMAIN book[side]
         /\ book[side][scale(p)] = scale(LastFor(side, p)[1][DepthItem_Volume])
    ELSE scale(p) \notin DOMAIN book[side]

\* the upsert or delete of a record on a dict
Applied(d, scale(_), rec) ==
    IF IsPositive(rec[DepthItem_Volume])
    THEN DictSet(d, scale(rec[DepthItem_Price]), scale(rec[DepthItem_Volume]))
    ELSE DictPop(d, scale(rec[DepthItem_Price]))

\* the book that holds only the level of a record, on the side it selects
OnlyLevelOf(rec, scale(_)) ==
    [[bids |-> EmptyDict, asks |-> EmptyDict]
        EXCEPT ![SideOf(rec)] = Applied(EmptyDict, scale, rec)]

BestIsMax(b, keys) ==
    IF keys = {} THEN b = None
    ELSE b # None /\ b[1] \in keys /\ \A k \in keys : ~FLess(b[1], k)

BestIsMin(b, keys) ==
    IF keys = {} THEN b = None
    ELSE b # None /\ b[1] \in keys /\ \A k \in keys : ~FLess(k, b[1])

(***************************************************************************)
(* C1.  With Clear never set, every side and price holds the level of the  *)
(* last record for that side and price: present with its volume when that  *)
(* volume is above 0, absent when it is not or when no record named it.    *)
(* (Stated of each loop with its own scaling of price and volume.)         *)
(***************************************************************************)
C1_LastRecordWins ==
    (\A i \in 1..Len(yielded) : IsDepth(yielded[i]) => ~HasClear(yielded[i]))
    => \A side \in Sides, p \in StreamPrices :
          /\ LevelAsLast(cs.depth, CsScale, side, p)
          /\ LevelAsLast(RsBook, RsScale, side, p)
          /\ LevelAsLast(pm.depth, PmScale, side, p)

(***************************************************************************)
(* C2.  After a Depth record with the Clear bit the book holds exactly the *)
(* one level of that record on its side when its volume is above 0, and    *)
(* nothing on either side when it is not, whatever the book held before.   *)
(***************************************************************************)
C2_ClearThenApply ==
    (yielded # << >> /\ IsDepth(LastRec) /\ HasClear(LastRec))
    => /\ cs.depth = OnlyLevelOf(LastRec, CsScale)
       /\ RsBook = OnlyLevelOf(LastRec, RsScale)
       /\ pm.depth = OnlyLevelOf(LastRec, PmScale)

\* a book with a bid and an ask, then a clearing bid of positive volume
C2_Witness ==
    /\ Len(yielded) = 3
    /\ yielded[1] = DepthItem(1, PxB, VolA, FlagBuy)
    /\ yielded[2] = DepthItem(1, PxA, VolB, FlagSell)
    /\ yielded[3] = DepthItem(1, PxA, VolA, FlagClear + FlagBuy)
    /\ DOMAIN cs.depth.bids = {CsScale(PxA)}
    /\ DOMAIN cs.depth.asks = {}

(***************************************************************************)
(* C3.  The entry logged for a Trade record is (header time, the price at  *)
(* offset 20 scaled, the volume at offset 28 scaled), in every loop.       *)
(***************************************************************************)
C3_TradeEntryFields ==
    /\ cs.trades = [i \in 1..Len(Ticks) |->
                      <<Ticks[i][TimeOffset], CsScale(Ticks[i][TickItem_Price]),
                        CsScale(Ticks[i][TickItem_Volume])>>]
    /\ rs.trades = [i \in 1..Len(Ticks) |->
                      <<Ticks[i][TimeOffset], RsScale(Ticks[i][TickItem_Price]),
                        RsScale(Ticks[i][TickItem_Volume])>>]
    /\ pm.trades = [i \in 1..Len(Ticks) |->
                      <<Ticks[i][TimeOffset], PmScale(Ticks[i][TickItem_Price]),
                        PmScale(Ticks[i][TickItem_Volume])>>]

(***************************************************************************)
(* C4.  After every applied record best_bid() is the largest bid key and   *)
(* best_ask() the smallest ask key of the book as it is now, none for an   *)
(* empty side; so are the best bid and ask of the final summaries.         *)
(***************************************************************************)
C4_BestOfBook ==
    /\ BestIsMax(DepthBook_best_bid(cs.depth), DOMAIN cs.depth.bids)
    /\ BestIsMin(DepthBook_best_ask(cs.depth), DOMAIN cs.depth.asks)
    /\ pc = "done" =>
          /\ BestIsMax(rs.report[1].bb, DOMAIN rs.bids)
          /\ BestIsMin(rs.report[1].ba, DOMAIN rs.asks)
          /\ BestIsMax(pm.report[1].best_bid, DOMAIN pm.depth.bids)
          /\ BestIsMin(pm.report[1].best_ask, DOMAIN pm.depth.asks)

\* two bid levels and an ask level, summarised
C4_Witness ==
    /\ pc = "done"
    /\ Cardinality(DOMAIN cs.depth.bids) = 2
    /\ Cardinality(DOMAIN rs.bids) = 2
    /\ Cardinality(DOMAIN pm.depth.bids) = 2
    /\ Cardinality(DOMAIN cs.depth.asks) = 1
(***************************************************************************)
(* C5.  The trade log grows only at its end, one entry per Trade record in *)
(* arrival order: no step removes, reorders or rewrites an entry, records  *)
(* with equal ids each get their entry, and the last entry is that of the  *)
(* Trade record processed last.  (Each loop's entry is the triple that     *)
(* loop reads from the record; which fields it reads is C3's matter.)      *)
(***************************************************************************)
CsEntry(rec) ==
    <<rec[TimeOffset], CsScale(rec[TickItem_Price]), CsScale(rec[TickItem_Volume])>>
RsEntry(rec) ==
    <<rec[_TS], RsScale(rec[_PX]), RsScale(rec[_VOL])>>
PmEntry(rec) ==
    <<rec[TimeOffset], PmScale(rec[TickItem_Price]), PmScale(rec[TickItem_Volume])>>

IsPrefix(s, t) == Len(s) <= Len(t) /\ s = SubSeq(t, 1, Len(s))

C5_LogInArrivalOrder ==
    /\ [](/\ cs.trades = [i \in 1..Len(Ticks) |-> CsEntry(Ticks[i])]
          /\ rs.trades = [i \in 1..Len(Ticks) |-> RsEntry(Ticks[i])]
          /\ pm.trades = [i \in 1..Len(Ticks) |-> PmEntry(Ticks[i])])
    /\ [][/\ IsPrefix(cs.trades, cs.trades')
          /\ IsPrefix(rs.trades, rs.trades')
          /\ IsPrefix(pm.trades, pm.trades')
          /\ Len(cs.trades') =
                Len(cs.trades) + (IF Stepped /\ IsTick(TheRec) THEN 1 ELSE 0)]_vars

\* two Trade records of one id and different times, then a Depth record
C5_Witness ==
    /\ Len(yielded) = 3
    /\ IsTick(yielded[1]) /\ IsTick(yielded[2]) /\ IsDepth(yielded[3])
    /\ yielded[1][TickItem_Id] = yielded[2][TickItem_Id]
    /\ Len(cs.trades) = 2 /\ Len(rs.trades) = 2 /\ Len(pm.trades) = 2
    /\ cs.trades[1][1] = 2 /\ cs.trades[2][1] = 1

(***************************************************************************)
(* C6.  A session starts in BuildingSnapshot.  The first Trade record met  *)
(* in BuildingSnapshot turns the session Live and emits one observation    *)
(* carrying best_bid() and best_ask() of that moment, also when one or     *)
(* both sides are empty (the value is then none).                          *)
(***************************************************************************)
C6_FirstTradeEmits ==
    /\ cs.building_snapshot /\ rs.building_snapshot
    /\ [][(Stepped /\ IsTick(TheRec)) =>
            /\ cs.building_snapshot =>
                 /\ ~cs.building_snapshot'
                 /\ cs.out' = Append(cs.out,
                                [bid |-> DepthBook_best_bid(cs.depth),
                                 ask |-> DepthBook_best_ask(cs.depth)])
            /\ rs.building_snapshot =>
                 /\ ~rs.building_snapshot'
                 /\ rs.out' = Append(rs.out,
                                [bid |-> DepthBook_best_bid(RsBook),
                                 ask |-> DepthBook_best_ask(RsBook)])]_vars

(***************************************************************************)
(* C7.  A session emits the first-complete-book observation at most once,  *)
(* whatever Trade and Clear records follow.                                *)
(***************************************************************************)
C7_AtMostOneObservation ==
    Len(cs.out) <= 1 /\ Len(rs.out) <= 1

\* a full book and a Trade, then a Clear, a full book again and a Trade
C7_Witness ==
    /\ Len(yielded) = 6
    /\ IsDepth(yielded[1]) /\ IsDepth(yielded[2]) /\ IsTick(yielded[3])
    /\ IsDepth(yielded[4]) /\ HasClear(yielded[4])
    /\ IsDepth(yielded[5]) /\ IsTick(yielded[6])
    /\ Truthy(rs.bids) /\ Truthy(rs.asks)
    /\ Len(rs.out) = 1 /\ Len(cs.out) = 1

(***************************************************************************)
(* C8.  The message counter is the number of records the reader yielded:   *)
(* it goes up by one for each record, those of an unrecognised kind        *)
(* included, and never goes down.                                          *)
(***************************************************************************)
C8_CountsEveryRecord ==
    cs.msgs = Len(yielded) /\ rs.cnt = Len(yielded) /\ pm.count = Len(yielded)

(***************************************************************************)
(* C9.  A record whose kind is neither Depth nor Trade leaves both sides   *)
(* of the book, the trade log and the session state as they were, and the  *)
(* loop goes on: the state is always the one the recognised records alone  *)
(* produce.                                                                *)
(***************************************************************************)
Recognised == SelectSeq(yielded, LAMBDA r : ~IsOther(r))

RECURSIVE CsReplay(_)
CsReplay(recs) ==
    IF recs = << >> THEN CsInit
    ELSE CsBody(CsReplay(SubSeq(recs, 1, Len(recs) - 1)), recs[Len(recs)])

RECURSIVE RsReplay(_)
RsReplay(recs) ==
    IF recs = << >> THEN RsInit
    ELSE RsBody(RsReplay(SubSeq(recs, 1, Len(recs) - 1)), recs[Len(recs)])

RECURSIVE PmReplay(_)
PmReplay(recs) ==
    IF recs = << >> THEN PmInit
    ELSE PmBody(PmReplay(SubSeq(recs, 1, Len(recs) - 1)), recs[Len(recs)])

CsState(st) == <<st.depth, st.trades, st.building_snapshot, st.out>>
RsState(st) == <<st.bids, st.asks, st.trades, st.building_snapshot, st.out>>
PmState(st) == <<st.depth, st.trades>>

C9_UnknownKindSkipped ==
    /\ [](/\ CsState(cs) = CsState(CsReplay(Recognised))
          /\ RsState(rs) = RsState(RsReplay(Recognised))
          /\ PmState(pm) = PmState(PmReplay(Recognised)))
    /\ [][(Stepped /\ IsOther(TheRec)) =>
            /\ CsState(cs') = CsState(cs)
            /\ RsState(rs') = RsState(rs)
            /\ PmState(pm') = PmState(pm)
            /\ cs.error' = None /\ rs.error' = None /\ pm.error' = None
            /\ pc' = "loop"]_vars

\* an unknown record first, then a Depth and a Trade record that take effect
C9_Witness ==
    /\ Len(yielded) = 3
    /\ IsOther(yielded[1]) /\ IsDepth(yielded[2]) /\ IsTick(yielded[3])
    /\ Truthy(cs.depth.bids) /\ Truthy(rs.bids) /\ Truthy(pm.depth.bids)
    /\ Len(cs.trades) = 1 /\ Len(rs.trades) = 1 /\ Len(pm.trades) = 1

(***************************************************************************)
(* C10.  As stated: a Depth record with both or neither of Buy and Sell    *)
(* set goes to the ask side, so it leaves the bids alone (but for Clear).  *)
(***************************************************************************)
BothOrNeither(rec) == HasBuy(rec) <=> HasSell(rec)

Cleared(d, rec) == IF HasClear(rec) THEN EmptyDict ELSE d

C10_BothOrNeitherIsAsk ==
    [][(Stepped /\ IsDepth(TheRec) /\ BothOrNeither(TheRec)) =>
         /\ cs.depth.bids' = Cleared(cs.depth.bids, TheRec)
         /\ rs.bids' = Cleared(rs.bids, TheRec)
         /\ pm.depth.bids' = Cleared(pm.depth.bids, TheRec)]_vars

(***************************************************************************)
(* C10, as the code has it.  The Buy bit alone selects the side: a record  *)
(* with neither bit set goes to the asks and leaves the bids alone, a      *)
(* record with both bits set goes to the bids and leaves the asks alone;   *)
(* either way the record is applied and the loop goes on.                  *)
(***************************************************************************)
C10_BuyBitSelectsSide ==
    [][(Stepped /\ IsDepth(TheRec) /\ BothOrNeither(TheRec)) =>
         /\ pc' = "loop"
         /\ cs.error' = None /\ rs.error' = None /\ pm.error' = None
         /\ IF HasBuy(TheRec)
            THEN /\ cs.depth.asks' = Cleared(cs.depth.asks, TheRec)
                 /\ rs.asks' = Cleared(rs.asks, TheRec)
                 /\ pm.depth.asks' = Cleared(pm.depth.asks, TheRec)
                 /\ cs.depth.bids' =
                       Applied(Cleared(cs.depth.bids, TheRec), CsScale, TheRec)
                 /\ rs.bids' =
                       Applied(Cleared(rs.bids, TheRec), RsScale, TheRec)
                 /\ pm.depth.bids' =
                       Applied(Cleared(pm.depth.bids, TheRec), PmScale, TheRec)
            ELSE /\ cs.depth.bids' = Cleared(cs.depth.bids, TheRec)
                 /\ rs.bids' = Cleared(rs.bids, TheRec)
                 /\ pm.depth.bids' = Cleared(pm.depth.bids, TheRec)
                 /\ cs.depth.asks' =
                       Applied(Cleared(cs.depth.asks, TheRec), CsScale, TheRec)
                 /\ rs.asks' =
                       Applied(Cleared(rs.asks, TheRec), RsScale, TheRec)
                 /\ pm.depth.asks' =
                       Applied(Cleared(pm.depth.asks, TheRec), PmScale, TheRec)]_vars

\* a record with both bits set, then one with neither, both of volume > 0
C10_Witness ==
    /\ Len(yielded) = 2
    /\ yielded[1] = DepthItem(1, PxA, VolA, FlagBuy + FlagSell)
    /\ yielded[2] = DepthItem(1, PxA, VolA, 0)
    /\ DOMAIN cs.depth.bids = {CsScale(PxA)} /\ DOMAIN cs.depth.asks = {CsScale(PxA)}
    /\ DOMAIN rs.bids = {RsScale(PxA)} /\ DOMAIN rs.asks = {RsScale(PxA)}

(***************************************************************************)
(* Vocabulary of the failure properties.                                   *)
(***************************************************************************)
\* a decode failure has been raised in a program
IsDecodeError(e) == e # None /\ e[1].exc \in {"IOError", "OSError"}
DecodeFailed == IsDecodeError(cs.error) \/ IsDecodeError(rs.error) \/ IsDecodeError(pm.error)

ReadCalls == <<io.cs.read_message, io.rs.read_message, io.pm.read_message>>
CloseCalls == <<io.cs.close_reader, io.rs.close_reader, io.pm.close_reader>>
Counters == <<cs.msgs, rs.cnt, pm.count>>

\* the read of this step returned a negative code
FailureStep == pc = "loop" /\ io'.message_size # None /\ io'.message_size[1] < 0

(***************************************************************************)
(* C11.  When read_message returns a negative code the loop stops at that  *)
(* step: the failing read applies no record and counts none, the failure   *)
(* is raised (cs, rust) or reported (process_messages), and from then on   *)
(* no program calls read_message, applies a record or counts one.          *)
(***************************************************************************)
C11_FailureStopsLoop ==
    /\ [](pc = "failed" => DecodeFailed)
    /\ [][FailureStep =>
            /\ IsDecodeError(cs.error') /\ IsDecodeError(rs.error')
            /\ IsDecodeError(pm.error')
            /\ CsState(cs') = CsState(cs) /\ RsState(rs') = RsState(rs)
            /\ PmState(pm') = PmState(pm)
            /\ Counters' = Counters /\ yielded' = yielded]_vars
    /\ [][DecodeFailed =>
            /\ ReadCalls' = ReadCalls
            /\ CsState(cs') = CsState(cs) /\ RsState(rs') = RsState(rs)
            /\ PmState(pm') = PmState(pm)
            /\ Counters' = Counters /\ yielded' = yielded
            /\ cs.error' = cs.error /\ rs.error' = rs.error
            /\ pm.error' = pm.error]_vars

\* two records, a corrupted block, and a step taken after the failure
C11_Witness ==
    /\ pc = "failed"
    /\ Len(yielded) = 2
    /\ io.message_size = Some(-2)
    /\ ReadCalls = <<3, 3, 3>>
    /\ io.close_calls = 2
    /\ cs.error[1].what = "Corrupted data block"

(***************************************************************************)
(* C12.  When a decode failure ends the loop after k records, what those   *)
(* k records built (book, trade log, counter) reaches the caller: it is    *)
(* reported or returned, together with the word that the stream did not    *)
(* complete.                                                               *)
(***************************************************************************)
C12_StateSurvivesFailure ==
    pc = "failed" =>
        /\ DecodeFailed
        /\ cs.report # None /\ rs.report # None /\ pm.report # None

(***************************************************************************)
(* C14.  The failure tells the codes apart: -3 is the unexpected end of    *)
(* file, -2 the corrupted block, any other negative code an unknown        *)
(* failure that carries the code; and a failed read yields no record.      *)
(***************************************************************************)
\* the failure of bench_faststorage_cs and process_messages names this code
Names(e, code) ==
    /\ e # None
    /\ (e[1].what = "Unexpected end of file") = (code = -3)
    /\ (e[1].what = "Corrupted data block") = (code = -2)
    /\ (e[1].what = "unknown error") = (code \notin {-2, -3})
    /\ code \notin {-2, -3} => e[1].code = Some(code)

C14_FailuresDistinct ==
    /\ [](pc = "failed" =>
            /\ io.message_size # None /\ io.message_size[1] < 0
            /\ Names(cs.error, io.message_size[1])
            /\ Names(pm.error, io.message_size[1])
            /\ rs.error # None /\ rs.error[1].code = io.message_size)
    /\ [][FailureStep => yielded' = yielded /\ pc' = "failed"]_vars

\* a stream cut inside its second record
C14_Witness ==
    /\ pc = "failed"
    /\ Len(yielded) = 1
    /\ io.message_size = Some(-3)
    /\ cs.error[1].what = "Unexpected end of file"
    /\ pm.error[1].what = "Unexpected end of file"
    /\ rs.error[1].code = Some(-3)

(***************************************************************************)
(* C13.  Every way out of the session (end of stream, decode failure, an   *)
(* exception in the loop body) calls native close_reader exactly once on   *)
(* the opened handle, and close() is idempotent: a later close(), __exit__ *)
(* or __del__ calls close_reader no second time and raises nothing.        *)
(***************************************************************************)
C13_ClosedExactlyOnce ==
    /\ [](CloseCalls = IF pc = "loop" THEN <<0, 0, 0>> ELSE <<1, 1, 1>>)
    /\ [][(pc # "loop") =>
            /\ CloseCalls' = CloseCalls
            /\ ReadCalls' = ReadCalls
            /\ <<cs, rs, pm, pc, yielded>>' = <<cs, rs, pm, pc, yielded>>]_vars

\* a session left by an exception of the loop body, then closed twice more
C13_Witness ==
    /\ pc = "interrupted"
    /\ Len(yielded) = 2
    /\ io.close_calls = MaxCloses
    /\ CloseCalls = <<1, 1, 1>>
    /\ io.cs.reader_handle = None /\ io.rs._closed

(***************************************************************************)
(* C15.  Run side by side on one stream, run_benchmark and benchmark go    *)
(* through the same BuildingSnapshot/Live values and emit the first        *)
(* complete book at the same record: Clear has one effect on the session   *)
(* state in both.                                                          *)
(***************************************************************************)
C15_OneClearPolicy ==
    /\ cs.building_snapshot = rs.building_snapshot
    /\ Len(cs.out) = Len(rs.out)

(***************************************************************************)
(* C16.  The stream [Depth(Buy, 10050000000, 200000000), Depth(Sell,       *)
(* 10060000000, 150000000), Trade(10055000000, 50000000)] leaves bids =    *)
(* {100.50: 2.00}, asks = {100.60: 1.50}, one trade entry (time, 100.55,   *)
(* 0.50), the session Live, best bid 100.50 and best ask 100.60.           *)
(***************************************************************************)
\* the decimal x * 10^-8, as the float nearest to it
Decimal(x) == IntTrueDiv(x, E8)

Stream16 ==
    <<DepthItem(1, PxA, VolB, FlagBuy), DepthItem(1, PxB, VolA, FlagSell),
      TickItem(2, Id7, Px55, Vol05, 0)>>

Book16 ==
    [bids |-> (Decimal(PxA) :> Decimal(VolB)),
     asks |-> (Decimal(PxB) :> Decimal(VolA))]

C16_EndToEnd ==
    yielded = Stream16 =>
        /\ cs.depth = Book16
        /\ cs.trades = <<<<2, Decimal(Px55), Decimal(Vol05)>>>>
        /\ ~cs.building_snapshot
        /\ DepthBook_best_bid(cs.depth) = Some(Decimal(PxA))
        /\ DepthBook_best_ask(cs.depth) = Some(Decimal(PxB))
        /\ RsBook = Book16
        /\ rs.trades = <<<<2, Decimal(Px55), Decimal(Vol05)>>>>
        /\ ~rs.building_snapshot
        /\ DepthBook_best_bid(RsBook) = Some(Decimal(PxA))
        /\ DepthBook_best_ask(RsBook) = Some(Decimal(PxB))

(***************************************************************************)
(* C17.  The loop terminates on every finite stream.  It makes one read an *)
(* iteration; at the first read that returns 0 it stops without raising,   *)
(* and by then every record before the end has gone exactly once, in       *)
(* stream order, to the book (Depth) or to the trade log (Trade).          *)
(***************************************************************************)
\* the book that the Depth records of a stream build, applied once, in order
RECURSIVE BookOf(_, _)
BookOf(recs, table) ==
    IF recs = << >> THEN [bids |-> EmptyDict, asks |-> EmptyDict]
    ELSE LET r    == recs[Len(recs)]
             prev == BookOf(SubSeq(recs, 1, Len(recs) - 1), table)
             base == IF HasClear(r)
                     THEN [bids |-> EmptyDict, asks |-> EmptyDict] ELSE prev
         IN  IF ~IsDepth(r) THEN prev
             ELSE [base EXCEPT ![SideOf(r)] =
                     IF IsPositive(r[DepthItem_Volume])
                     THEN DictSet(@, table[r[DepthItem_Price]],
                                  table[r[DepthItem_Volume]])
                     ELSE DictPop(@, table[r[DepthItem_Price]])]

ReadsSoFar ==
    IF pc \in {"done", "failed"} THEN Len(yielded) + 1 ELSE Len(yielded)

C17_LoopTerminates ==
    /\ <>(pc # "loop")
    /\ [](ReadCalls = <<ReadsSoFar, ReadsSoFar, ReadsSoFar>>)
    /\ [](pc = "done" =>
            /\ io.message_size = Some(0)
            /\ cs.error = None /\ rs.error = None /\ pm.error = None
            /\ cs.report # None /\ rs.report # None /\ pm.report # None
            /\ cs.depth = BookOf(yielded, CsScaleTable)
            /\ RsBook = BookOf(yielded, RsScaleTable)
            /\ pm.depth = BookOf(yielded, PmScaleTable)
            /\ cs.trades = [i \in 1..Len(Ticks) |-> CsEntry(Ticks[i])]
            /\ rs.trades = [i \in 1..Len(Ticks) |-> RsEntry(Ticks[i])]
            /\ pm.trades = [i \in 1..Len(Ticks) |-> PmEntry(Ticks[i])])

\* a Depth, an unknown and a Trade record, then the end of the stream
C17_Witness ==
    /\ pc = "done"
    /\ Len(yielded) = 3
    /\ IsDepth(yielded[1]) /\ IsOther(yielded[2]) /\ IsTick(yielded[3])
    /\ ReadCalls = <<4, 4, 4>>
    /\ Truthy(cs.depth.bids) /\ Len(cs.trades) = 1

(***************************************************************************)
(* C18.  In bench_faststorage_rust, after every record building_snapshot   *)
(* is True exactly when no Tick record came after the last Clear-flagged   *)
(* Depth record (after the start, when there was none); so a Clear met     *)
(* while Live brings BuildingSnapshot back.                                *)
(***************************************************************************)
ClearAt == {i \in 1..Len(yielded) : IsDepth(yielded[i]) /\ HasClear(yielded[i])}

C18_BuildingSinceClear ==
    rs.building_snapshot <=>
        \A i \in 1..Len(yielded) :
            IsTick(yielded[i]) => \E j \in ClearAt : j > i

\* Live after a Trade, then a Clear
C18_Witness ==
    /\ Len(yielded) = 3
    /\ IsDepth(yielded[1]) /\ IsTick(yielded[2])
    /\ IsDepth(yielded[3]) /\ HasClear(yielded[3])
    /\ rs.building_snapshot
    /\ ~cs.building_snapshot

(***************************************************************************)
(* C19.  A Depth record without Clear changes at most the one level at its *)
(* own price on the side it selects: the other side, the level of every    *)
(* other price on its side and the trade log stay as they were.  A Trade   *)
(* record leaves bids and asks as they were.                               *)
(***************************************************************************)
\* the level a side holds for a raw price: its volume, or none
LevelOf(book, scale(_), side, p) ==
    IF scale(p) \in DOMAIN book[side] THEN Some(book[side][scale(p)]) ELSE None

\* every level but that of the record's side and price stays
OthersStay(old, new, scale(_), rec) ==
    \A side \in Sides, p \in StreamPrices :
        (side # SideOf(rec) \/ p # rec[DepthItem_Price])
        => LevelOf(new, scale, side, p) = LevelOf(old, scale, side, p)

C19_RoutingFrame ==
    /\ [][(Stepped /\ IsDepth(TheRec) /\ ~HasClear(TheRec)) =>
            /\ OthersStay(cs.depth, cs.depth', CsScale, TheRec)
            /\ OthersStay(RsBook, RsBook', RsScale, TheRec)
            /\ OthersStay(pm.depth, pm.depth', PmScale, TheRec)
            /\ cs.trades' = cs.trades /\ rs.trades' = rs.trades
            /\ pm.trades' = pm.trades]_vars
    /\ [][(Stepped /\ IsTick(TheRec)) =>
            /\ cs.depth' = cs.depth /\ RsBook' = RsBook
            /\ pm.depth' = pm.depth]_vars

(***************************************************************************)
(* What does hold of the stores: a Depth record without Clear changes at   *)
(* most the one entry under the key its price scales to, on the side it    *)
(* selects, and a Trade record changes no entry.                           *)
(***************************************************************************)
OtherSide(rec) == IF HasBuy(rec) THEN "asks" ELSE "bids"

\* all of a book but the entry of the record
Frame(book, scale(_), rec) ==
    <<book[OtherSide(rec)],
      DictPop(book[SideOf(rec)], scale(rec[DepthItem_Price]))>>

RoutingFrameByKey ==
    /\ [][(Stepped /\ IsDepth(TheRec) /\ ~HasClear(TheRec)) =>
            /\ Frame(cs.depth', CsScale, TheRec) = Frame(cs.depth, CsScale, TheRec)
            /\ Frame(RsBook', RsScale, TheRec) = Frame(RsBook, RsScale, TheRec)
            /\ Frame(pm.depth', PmScale, TheRec) = Frame(pm.depth, PmScale, TheRec)
            /\ cs.trades' = cs.trades /\ rs.trades' = rs.trades
            /\ pm.trades' = pm.trades]_vars
    /\ [][(Stepped /\ IsTick(TheRec)) =>
            /\ cs.depth' = cs.depth /\ RsBook' = RsBook
            /\ pm.depth' = pm.depth]_vars

(***************************************************************************)
(* C20.  In every reachable state every level stored in bids or asks has a *)
(* volume above zero, whatever Depth records came (with or without Clear,  *)
(* on either side, with positive, zero or negative volume).                *)
(***************************************************************************)
AllPositive(d) == \A k \in DOMAIN d : FLess(FZero, d[k])

C20_StoredVolumesPositive ==
    /\ AllPositive(cs.depth.bids) /\ AllPositive(cs.depth.asks)
    /\ AllPositive(rs.bids) /\ AllPositive(rs.asks)
    /\ AllPositive(pm.depth.bids) /\ AllPositive(pm.depth.asks)

\* a bid, then records of negative and of zero volume, one of them at its price
C20_Witness ==
    /\ Len(yielded) = 3
    /\ yielded[1] = DepthItem(1, PxA, VolA, FlagBuy)
    /\ yielded[2] = DepthItem(1, PxA, VolNeg, 0)
    /\ yielded[3] = DepthItem(1, PxB, VolZero, FlagBuy)
    /\ DOMAIN cs.depth.bids = {CsScale(PxA)}
    /\ DOMAIN rs.bids = {RsScale(PxA)}
    /\ DOMAIN rs.asks = {}

(***************************************************************************)
(* C21.  Whatever sequence of open, __next__ and close a client makes,     *)
(* every read_message call passes a live handle: one that is not null and  *)
(* has not been passed to close_reader before the call.  In particular a   *)
(* __next__ after close() does not read through the released or the nulled *)
(* handle.                                                                 *)
(***************************************************************************)
\* the handle of a read_message call is not null and not among the released
LiveHandle(passed, released) ==
    /\ passed # None
    /\ passed[1] # None
    /\ passed[1] \notin released

C21_ReadsThroughLiveHandle ==
    [][/\ io'.cs.read_message # io.cs.read_message
            => LiveHandle(io'.cs.passed, io.cs.released)
       /\ io'.rs.read_message # io.rs.read_message
            => LiveHandle(io'.rs.passed, io.rs.released)
       /\ io'.pm.read_message # io.pm.read_message
            => LiveHandle(io'.pm.passed, io.pm.released)]_vars

=============================================================================
